---- MODULE Spec2Model ----
(***************************************************************************)
(* A model of the MIDI track/channel engine of 53hp/Python-Scripts:        *)
(*   src/MidiFile_Filter.py        MIDIFilterGUI (split, select,           *)
(*                                 standardize, bass relocation)           *)
(*   src/MidiFile_combiner_6to5.py merge_drum_tracks, combine_midi_files   *)
(*                                                                         *)
(* A mido message is a record.  Its attributes are its fields, so that     *)
(* hasattr(msg, 'channel') is "channel" \in DOMAIN msg: a meta message or  *)
(* a system-exclusive message has no channel field at all.  A track is a   *)
(* sequence of messages, a TrackInfo dict is a record whose optional keys  *)
(* (old_channel, moved_from, is_bass, swapped_from) are present only once  *)
(* the code has set them.                                                  *)
(***************************************************************************)
EXTENDS Integers, Sequences, FiniteSets, TLC

VARIABLES
    pc,             \* position inside the handler being run
    in_file,        \* process_files: the MIDI file on disk that is being read
    mid,            \* process_files: the MidiFile being processed
    top_tracks,     \* process_files: the list of TrackInfo dicts
    input_tracks,   \* the TrackInfo list as it was before standardization
    removed_empty,  \* process_files: tracks dropped for too few events
    skipped_count,  \* process_files: files skipped
    new_mid,        \* process_files: the MidiFile that was saved
    track5_msgs,    \* merge_drum_tracks: the first argument (primary)
    track6_msgs,    \* merge_drum_tracks: the second argument (secondary)
    merged_drums,   \* merge_drum_tracks: the returned list
    files,          \* combiner: the files 1.mid .. 6.mid of the folder
    bpm,            \* combiner: the BPM entered
    delete_individual,  \* combiner: the "delete individual files" box
    output_midi,    \* combiner: what combine_midi_files returned
    saved_midi,     \* combiner: the combined file on disk
    error,          \* combiner: the error shown to the user
    midi_files,     \* process_files: the files of the batch, as they are on disk
    file_idx,       \* process_files: the position of the loop in midi_files
    written         \* process_files: the file written for each file of the batch

filter_vars == <<in_file, mid, top_tracks, input_tracks, removed_empty,
                 skipped_count, new_mid>>
merge_vars == <<track5_msgs, track6_msgs, merged_drums>>
combine_vars == <<files, bpm, delete_individual, output_midi, saved_midi, error>>
batch_vars == <<midi_files, file_idx, written>>
vars == <<pc, filter_vars, merge_vars, combine_vars, batch_vars>>

\* self.max_tracks and self.min_events, as MIDIFilterGUI.__init__ sets them.
max_tracks == 5
min_events == 50

(***************************************************************************)
(* Messages                                                                *)
(***************************************************************************)
NoteOn(ch, n, v, t) ==
    [type |-> "note_on", is_meta |-> FALSE, channel |-> ch, note |-> n,
     velocity |-> v, time |-> t]

NoteOff(ch, n, t) ==
    [type |-> "note_off", is_meta |-> FALSE, channel |-> ch, note |-> n,
     velocity |-> 0, time |-> t]

ControlChange(ch, t) ==
    [type |-> "control_change", is_meta |-> FALSE, channel |-> ch,
     control |-> 7, value |-> 100, time |-> t]

SysEx(t) == [type |-> "sysex", is_meta |-> FALSE, time |-> t]

TrackName(name, t) ==
    [type |-> "track_name", is_meta |-> TRUE, name |-> name, time |-> t]

SetTempo(tempo, t) ==
    [type |-> "set_tempo", is_meta |-> TRUE, tempo |-> tempo, time |-> t]

MetaMessage(ty, t) == [type |-> ty, is_meta |-> TRUE, time |-> t]

\* hasattr(msg, attr)
hasattr(msg, attr) == attr \in DOMAIN msg

\* d[k] = v on a Python dict: the key is added when it is not there yet.
SetKey(d, k, v) == [a \in DOMAIN d \cup {k} |-> IF a = k THEN v ELSE d[a]]

(***************************************************************************)
(* Track Classifier                                                        *)
(***************************************************************************)
RECURSIVE get_track_channel(_)
get_track_channel(track) ==
    IF track = <<>> THEN 999
    ELSE IF hasattr(Head(track), "channel") THEN Head(track).channel
    ELSE get_track_channel(Tail(track))

(***************************************************************************)
(* Channel Standardizer                                                    *)
(***************************************************************************)
melodic_channels == <<0, 1, 2, 3>>

InMelodicChannels(ch) == \E k \in 1..Len(melodic_channels) : melodic_channels[k] = ch

\* A variant that keeps the channel messages of the track only.
RemapMessages_channel_only(track, ch) ==
    LET voiced == SelectSeq(track, LAMBDA m : hasattr(m, "channel"))
    IN [k \in 1..Len(voiced) |-> [voiced[k] EXCEPT !.channel = ch]]

\* for msg in t['track']: if hasattr(msg, 'channel'): msg.channel = ch
RemapMessages(track, ch) ==
    [k \in 1..Len(track) |->
        IF hasattr(track[k], "channel") THEN [track[k] EXCEPT !.channel = ch]
        ELSE track[k]]

\* One pass of the drum loop body.
StandardizeDrum(t) ==
    LET old_ch == t.channel IN
    IF old_ch # 9
    THEN SetKey(SetKey([t EXCEPT !.track = RemapMessages(t.track, 9)],
                       "old_channel", old_ch), "channel", 9)
    ELSE t

\* The melodic loop body with "and" for "or" in its test: only a track
\* without a channel is remapped.
StandardizeMelodic_and(t, next_melodic_idx) ==
    LET old_ch == t.channel IN
    IF ~InMelodicChannels(old_ch) /\ old_ch = 999
    THEN LET new_ch == melodic_channels[(next_melodic_idx % Len(melodic_channels)) + 1]
         IN SetKey(SetKey([t EXCEPT !.track = RemapMessages(t.track, new_ch)],
                          "old_channel", old_ch), "channel", new_ch)
    ELSE t

\* One pass of the melodic loop body, with the cursor's value on entry.
StandardizeMelodic(t, next_melodic_idx) ==
    LET old_ch == t.channel IN
    IF ~InMelodicChannels(old_ch) \/ old_ch = 999
    THEN LET new_ch == melodic_channels[(next_melodic_idx % Len(melodic_channels)) + 1]
         IN SetKey(SetKey([t EXCEPT !.track = RemapMessages(t.track, new_ch)],
                          "old_channel", old_ch), "channel", new_ch)
    ELSE t

\* A variant where only a remapped track advances the cursor.
NextMelodicIdx_on_remap(t, next_melodic_idx) ==
    IF ~InMelodicChannels(t.channel) THEN next_melodic_idx + 1 ELSE next_melodic_idx

\* The cursor after one pass of the melodic loop: both branches add one.
NextMelodicIdx(t, next_melodic_idx) == next_melodic_idx + 1

RECURSIVE MelodicLoop(_, _)
MelodicLoop(ts, next_melodic_idx) ==
    IF ts = <<>> THEN <<>>
    ELSE <<StandardizeMelodic(Head(ts), next_melodic_idx)>>
         \o MelodicLoop(Tail(ts), NextMelodicIdx(Head(ts), next_melodic_idx))

IsDrumTrack(t) == t.channel = 9

standardize_channels(tracks) ==
    LET drum_tracks    == SelectSeq(tracks, IsDrumTrack)
        melodic_tracks == SelectSeq(tracks, LAMBDA t : ~IsDrumTrack(t))
    IN [k \in 1..Len(drum_tracks) |-> StandardizeDrum(drum_tracks[k])]
       \o MelodicLoop(melodic_tracks, 0)

(***************************************************************************)
(* Bass Relocator                                                          *)
(***************************************************************************)
IsNoteOn(msg) == msg.type = "note_on" /\ hasattr(msg, "note")

total_notes(track) == Cardinality({k \in 1..Len(track) : IsNoteOn(track[k])})

bass_count(track) ==
    Cardinality({k \in 1..Len(track) : IsNoteOn(track[k]) /\ track[k].note < 48})

\* A variant with bass_ratio >= 0.5.
BassRatioAboveHalf_or_half(track) ==
    total_notes(track) > 0 /\ 2 * bass_count(track) >= total_notes(track)

\* if total_notes > 0: bass_ratio = bass_count / total_notes; bass_ratio > 0.5
BassRatioAboveHalf(track) ==
    total_notes(track) > 0 /\ 2 * bass_count(track) > total_notes(track)

\* The search loop, from list position idx on, carrying bass_track_idx (0 for
\* None) and max_bass_notes.
RECURSIVE BassSearch(_, _, _, _)
BassSearch(tracks, idx, bass_track_idx, max_bass_notes) ==
    IF idx > Len(tracks) THEN bass_track_idx
    ELSE LET t == tracks[idx] IN
         IF t.channel = 9 \/ t.channel = 999
         THEN BassSearch(tracks, idx + 1, bass_track_idx, max_bass_notes)
         ELSE IF BassRatioAboveHalf(t.track) /\ bass_count(t.track) > max_bass_notes
         THEN BassSearch(tracks, idx + 1, idx, bass_count(t.track))
         ELSE BassSearch(tracks, idx + 1, bass_track_idx, max_bass_notes)

bass_track_index(tracks) == BassSearch(tracks, 1, 0, 0)

\* The first list position other than the bass track's whose channel is 1
\* (0 when there is none).
channel_1_index(tracks, bass_track_idx) ==
    LET found == {k \in 1..Len(tracks) : tracks[k].channel = 1 /\ k # bass_track_idx}
    IN IF found = {} THEN 0 ELSE CHOOSE k \in found : \A j \in found : k <= j

\* The move without bass_track['channel'] = 1.
MoveBass_keeps_channel(t, old_ch) ==
    SetKey(SetKey([t EXCEPT !.track = RemapMessages(t.track, 1)],
                  "moved_from", old_ch), "is_bass", TRUE)

\* The bass track moved to channel 1: its messages, then its TrackInfo.
MoveBass(t, old_ch) ==
    SetKey(SetKey(SetKey([t EXCEPT !.track = RemapMessages(t.track, 1)],
                         "moved_from", old_ch), "channel", 1), "is_bass", TRUE)

\* A variant that updates the TrackInfo and leaves the messages.
SwapOccupant_info_only(t, old_ch) ==
    SetKey(SetKey(t, "swapped_from", 1), "channel", old_ch)

\* The track found on channel 1 moved to the bass track's former channel.
SwapOccupant(t, old_ch) ==
    SetKey(SetKey([t EXCEPT !.track = RemapMessages(t.track, old_ch)],
                  "swapped_from", 1), "channel", old_ch)

detect_bass_track(tracks) ==
    LET b == bass_track_index(tracks) IN
    IF b # 0 /\ tracks[b].channel # 1
    THEN LET old_ch == tracks[b].channel
             c      == channel_1_index(tracks, b)
         IN [k \in 1..Len(tracks) |->
                IF k = b THEN MoveBass(tracks[k], old_ch)
                ELSE IF k = c THEN SwapOccupant(tracks[k], old_ch)
                ELSE tracks[k]]
    ELSE tracks

(***************************************************************************)
(* Python's list.sort(key=..., reverse=...): a stable sort.  keys[k] is    *)
(* the key of seq[k]; elements with equal keys keep their original order,  *)
(* with reverse as well as without.  A list that is in order already is    *)
(* returned as it is.                                                      *)
(***************************************************************************)
\* A variant that leaves the list in the order it has.
list_sort_as_is(seq, keys, reverse) == seq

list_sort(seq, keys, reverse) ==
    LET n == Len(seq)
        \* whether seq[j] comes out before seq[k], or is seq[k]
        upto(j, k) ==
            \/ IF reverse THEN keys[j] > keys[k] ELSE keys[j] < keys[k]
            \/ keys[j] = keys[k] /\ j <= k
        \* rank[k]: the place of seq[k] in the sorted list
        rank == SubSeq([k \in 1..n |-> Cardinality({j \in 1..n : upto(j, k)})], 1, n)
    IN IF \A k \in 1..(n - 1) : upto(k, k + 1)
       THEN seq
       ELSE SubSeq([p \in 1..n |-> seq[CHOOSE k \in 1..n : rank[k] = p]], 1, n)

(***************************************************************************)
(* Event Timeline                                                          *)
(***************************************************************************)
\* The running sum of the delta times: the value of abs_time (current_time)
\* after each of the messages lo..hi, current_time being its value before
\* message lo.  The loop is run as two halves, the second starting from the
\* time the first ends with, which keeps the evaluation shallow on long tracks.
RECURSIVE running_times(_, _, _, _)
running_times(messages, lo, hi, current_time) ==
    IF lo > hi THEN <<>>
    ELSE IF lo = hi THEN <<current_time + messages[lo].time>>
    ELSE LET half  == (lo + hi) \div 2
             first == running_times(messages, lo, half, current_time)
         IN first \o running_times(messages, half + 1, hi, first[Len(first)])

abs_times(messages) == running_times(messages, 1, Len(messages), 0)

\* merge_drum_tracks.get_abs_times: (abs_time, msg.copy(time=0)) pairs.
get_abs_times(messages) ==
    LET at == abs_times(messages)
    IN [k \in 1..Len(messages) |-> <<at[k], [messages[k] EXCEPT !.time = 0]>>]

\* The loop without last_time = abs_time: every delta taken from 0.
to_delta_times_from_zero(pairs) ==
    [k \in 1..Len(pairs) |-> [pairs[k][2] EXCEPT !.time = pairs[k][1]]]

\* The loops that turn (abs_time, msg) pairs back into delta times:
\* msg.time = abs_time - last_time; last_time = abs_time.
to_delta_times(pairs) ==
    [k \in 1..Len(pairs) |->
        [pairs[k][2] EXCEPT !.time =
            pairs[k][1] - (IF k = 1 THEN 0 ELSE pairs[k - 1][1])]]

(***************************************************************************)
(* Channel Splitter                                                        *)
(***************************************************************************)
\* (current_time, msg) for every message of the track, in track order.
timed_messages(original_track) ==
    LET times == abs_times(original_track)
    IN [k \in 1..Len(original_track) |-> <<times[k], original_track[k]>>]

\* The bucket test without the channel: every bucket takes every message.
GoesToChannel_any(msg, channel) ==
    ~msg.is_meta /\ hasattr(msg, "channel")

\* Whether the split loop appends msg to channel_messages[channel].
GoesToChannel(msg, channel) ==
    ~msg.is_meta /\ hasattr(msg, "channel") /\ msg.channel = channel

\* channel_messages[channel]: (current_time, msg.copy(time=0)) in track
\* order, out of the timed messages of the track.
channel_messages(timed, channel) ==
    LET mine == SelectSeq(timed, LAMBDA p : GoesToChannel(p[2], channel))
    IN SubSeq([k \in 1..Len(mine) |-> <<mine[k][1], [mine[k][2] EXCEPT !.time = 0]>>],
              1, Len(mine))

\* meta_messages: (current_time, msg.copy()) in track order.
meta_messages(timed) == SelectSeq(timed, LAMBDA p : p[2].is_meta)

\* A variant that sorts the bucket by descending time.
ChannelTrack_turned(msgs) ==
    LET sorted == list_sort(msgs, [p \in 1..Len(msgs) |-> msgs[p][1]], TRUE)
    IN Append(to_delta_times(sorted), MetaMessage("end_of_track", 0))

\* The track built for one channel that has messages.
ChannelTrack(msgs) ==
    LET sorted == list_sort(msgs, [p \in 1..Len(msgs) |-> msgs[p][1]], FALSE)
    IN Append(to_delta_times(sorted), MetaMessage("end_of_track", 0))

\* for channel in range(16): if channel_messages[channel]: ...
RECURSIVE ChannelTracksFrom(_, _)
ChannelTracksFrom(timed, channel) ==
    IF channel > 15 THEN <<>>
    ELSE LET msgs == channel_messages(timed, channel)
         IN (IF msgs # <<>> THEN <<ChannelTrack(msgs)>> ELSE <<>>)
            \o ChannelTracksFrom(timed, channel + 1)

convert_type0_to_type1(m) ==
    LET original_track == m.tracks[1]
        timed == timed_messages(original_track)
        metas == meta_messages(timed)
    IN [type |-> 1,
        ticks_per_beat |-> m.ticks_per_beat,
        tracks |-> (IF metas # <<>> THEN <<to_delta_times(metas)>> ELSE <<>>)
                   \o ChannelTracksFrom(timed, 0)]

(***************************************************************************)
(* Track Selector                                                          *)
(***************************************************************************)
count_track_events(track) ==
    Cardinality({k \in 1..Len(track) : ~track[k].is_meta})

\* track_info: one dict per track, 'index' counting from 0.
track_info_of(m) ==
    [k \in 1..Len(m.tracks) |->
        [index |-> k - 1, track |-> m.tracks[k],
         events |-> count_track_events(m.tracks[k])]]

\* The threshold test with > for >=.
substantial_tracks_above(track_info) ==
    SelectSeq(track_info, LAMBDA t : t.events > min_events)

\* [t for t in track_info if t['events'] >= self.min_events]
substantial_tracks(track_info) ==
    SelectSeq(track_info, LAMBDA t : t.events >= min_events)

\* An ascending sort turned around: equal counts come out in reverse order.
SortByEvents_turned(tracks) ==
    LET up == list_sort(tracks, [k \in 1..Len(tracks) |-> tracks[k].events], FALSE)
    IN [k \in 1..Len(up) |-> up[Len(up) + 1 - k]]

\* substantial_tracks.sort(key=events, reverse=True)
SortByEvents(tracks) ==
    list_sort(tracks, [k \in 1..Len(tracks) |-> tracks[k].events], TRUE)

\* substantial_tracks[:self.max_tracks]
KeepTop(tracks) ==
    SubSeq(tracks, 1, IF Len(tracks) < max_tracks THEN Len(tracks) ELSE max_tracks)

\* for t in top_tracks: t['channel'] = self.get_track_channel(t['track'])
WithChannels(tracks) ==
    [k \in 1..Len(tracks) |->
        SetKey(tracks[k], "channel", get_track_channel(tracks[k].track))]

select_top_tracks(m) ==
    WithChannels(KeepTop(SortByEvents(substantial_tracks(track_info_of(m)))))

\* top_tracks.sort(key=lambda x: x['channel'])
SortByChannel(tracks) ==
    list_sort(tracks, [k \in 1..Len(tracks) |-> tracks[k].channel], FALSE)

(***************************************************************************)
(* Drum Merger                                                             *)
(***************************************************************************)
\* msg.type == 'note_on' and msg.velocity > 0
IsOnset(msg) == msg.type = "note_on" /\ msg.velocity > 0

\* track6_note_times: the (abs_time, note) keys of the onsets of track 6.
track6_note_times(track6_abs) ==
    {<<track6_abs[k][1], track6_abs[k][2].note>> :
        k \in {j \in 1..Len(track6_abs) : IsOnset(track6_abs[j][2])}}

\* The filter with the note alone as key, whatever the tick.
KeptOfTrack5_any_tick(pair, note_times) ==
    IF IsOnset(pair[2])
    THEN \A key \in note_times : key[2] # pair[2].note
    ELSE TRUE

\* Whether the filter loop keeps a pair of track 5.
KeptOfTrack5(pair, note_times) ==
    IF IsOnset(pair[2])
    THEN <<pair[1], pair[2].note>> \notin note_times
    ELSE TRUE

filtered_track5(track5_abs, note_times) ==
    SelectSeq(track5_abs, LAMBDA pair : KeptOfTrack5(pair, note_times))

\* A variant that puts track6 first.
Combined_track6_first(filtered, track6_abs) == track6_abs \o filtered

\* combined = filtered_track5 + track6_abs
Combined(filtered, track6_abs) == filtered \o track6_abs

merge_drum_tracks(track5, track6) ==
    LET track5_abs == get_abs_times(track5)
        track6_abs == get_abs_times(track6)
        combined   == Combined(filtered_track5(track5_abs,
                                               track6_note_times(track6_abs)),
                               track6_abs)
        sorted     == list_sort(combined,
                                [k \in 1..Len(combined) |-> combined[k][1]], FALSE)
    IN to_delta_times(sorted)

NoMerge ==
    /\ track5_msgs = <<>>
    /\ track6_msgs = <<>>
    /\ merged_drums = <<>>

\* merged_drums = merge_drum_tracks(track5_msgs, track6_msgs)
MergeDrums ==
    /\ pc = "merge"
    /\ merged_drums' = merge_drum_tracks(track5_msgs, track6_msgs)
    /\ pc' = "merged"
    /\ UNCHANGED <<filter_vars, track5_msgs, track6_msgs, combine_vars, batch_vars>>

(***************************************************************************)
(* Combiner: combine_midi_files and the handler that calls and saves it    *)
(***************************************************************************)
NoFile == [type |-> 1, ticks_per_beat |-> 0, tracks |-> <<>>]

NoError == [type |-> "none", file |-> 0]

\* mido.bpm2tempo: microseconds per beat
bpm2tempo(b) == 60000000 \div b

\* The messages of all tracks of a file, one track after the other.
RECURSIVE AllMessages(_)
AllMessages(tracks) ==
    IF tracks = <<>> THEN <<>> ELSE Head(tracks) \o AllMessages(Tail(tracks))

\* Files 1-4: a meta message is copied unless it is end_of_track, set_tempo
\* or track_name; any other message is copied.
CopiedToMelodic(msg) ==
    IF msg.is_meta
    THEN msg.type \notin {"end_of_track", "set_tempo", "track_name"}
    ELSE TRUE

\* Files 5 and 6: not msg.is_meta or (type != end_of_track and != set_tempo)
CopiedToDrums(msg) ==
    ~msg.is_meta \/ msg.type \notin {"end_of_track", "set_tempo"}

\* A variant that copies every message as it is.
CopyOnChannel_as_is(msg, ch) == msg

\* msg.copy() for a meta message, msg.copy(channel=ch) for any other.
\* The files modelled hold channel messages and meta messages only.
CopyOnChannel(msg, ch) ==
    IF msg.is_meta THEN msg ELSE [msg EXCEPT !.channel = ch]

CopyAllOnChannel(msgs, ch) ==
    [k \in 1..Len(msgs) |-> CopyOnChannel(msgs[k], ch)]

\* The track built from file i, for i in 1..4.
MelodicTrack(file, i) ==
    <<TrackName(<<"CH1", "CH2", "CH3", "CH4">>[i], 0)>>
    \o CopyAllOnChannel(SelectSeq(AllMessages(file.tracks), CopiedToMelodic), i - 1)
    \o <<MetaMessage("end_of_track", 0)>>

\* msg_list for file 5 or 6.
DrumMessagesOf(file) ==
    CopyAllOnChannel(SelectSeq(AllMessages(file.tracks), CopiedToDrums), 9)

DrumTrack(merged) ==
    <<TrackName("CH10", 0)>> \o merged \o <<MetaMessage("end_of_track", 0)>>

\* A variant that looks for files 1-4 only.
FirstMissing_melodic_only(fs) ==
    IF \A i \in 1..4 : fs[i].exists THEN 0
    ELSE CHOOSE i \in 1..4 : ~fs[i].exists /\ \A j \in 1..(i - 1) : fs[j].exists

\* The first of 1.mid .. 6.mid that is not in the folder (0 when all are):
\* the file the function fails on.
FirstMissing(fs) ==
    IF \A i \in 1..6 : fs[i].exists THEN 0
    ELSE CHOOSE i \in 1..6 : ~fs[i].exists /\ \A j \in 1..(i - 1) : fs[j].exists

\* ticks_per_beat = first_file.ticks_per_beat
OutputTicksPerBeat(fs) == fs[1].ticks_per_beat

\* The MidiFile combine_midi_files returns when all six files are there.
CombinedFile(fs, b) ==
    [type |-> 1,
     ticks_per_beat |-> OutputTicksPerBeat(fs),
     tracks |-> << <<SetTempo(bpm2tempo(b), 0), MetaMessage("end_of_track", 0)>> >>
                \o [i \in 1..4 |-> MelodicTrack(fs[i], i)]
                \o <<DrumTrack(merge_drum_tracks(DrumMessagesOf(fs[5]),
                                                 DrumMessagesOf(fs[6])))>>]

\* os.remove on every file of files_to_delete
AllRemoved(fs) == [i \in 1..6 |-> [fs[i] EXCEPT !.exists = FALSE]]

NoCombine ==
    /\ files = <<>>
    /\ bpm = 0
    /\ delete_individual = FALSE
    /\ output_midi = NoFile
    /\ saved_midi = NoFile
    /\ error = NoError

\* output_midi = combine_midi_files(folder, bpm, delete_individual), inside
\* the try of MidiCombinerGUI.combine_files
CombineMidiFiles ==
    /\ pc = "combine"
    /\ IF FirstMissing(files) # 0
       THEN /\ error' = [type |-> "FileNotFoundError", file |-> FirstMissing(files)]
            /\ pc' = "combine_failed"
            /\ UNCHANGED <<files, output_midi, merge_vars>>
       ELSE /\ track5_msgs' = DrumMessagesOf(files[5])
            /\ track6_msgs' = DrumMessagesOf(files[6])
            /\ merged_drums' = merge_drum_tracks(track5_msgs', track6_msgs')
            /\ output_midi' = CombinedFile(files, bpm)
            /\ files' = IF delete_individual THEN AllRemoved(files) ELSE files
            /\ pc' = "save_combined"
            /\ UNCHANGED error
    /\ UNCHANGED <<filter_vars, bpm, delete_individual, saved_midi, batch_vars>>

\* output_midi.save(output_path): the file is written, or the write raises
\* and the handler shows the error.
SaveCombined ==
    /\ pc = "save_combined"
    /\ \/ /\ saved_midi' = output_midi
          /\ pc' = "combine_done"
          /\ UNCHANGED error
       \/ /\ error' = [type |-> "Exception", file |-> 0]
          /\ pc' = "combine_failed"
          /\ UNCHANGED saved_midi
    /\ UNCHANGED <<filter_vars, merge_vars, files, bpm, delete_individual,
                   output_midi, batch_vars>>

(***************************************************************************)
(* process_files, for one file of the batch: the positions of the loop     *)
(* body.                                                                   *)
(***************************************************************************)
\* A file on disk that mido.MidiFile cannot parse.
Unreadable == [malformed |-> TRUE]

Readable(file) == "malformed" \notin DOMAIN file

NoBatch ==
    /\ midi_files = <<>>
    /\ file_idx = 0
    /\ written = <<>>

\* mid = mido.MidiFile(midi_file)
ReadFile ==
    /\ pc = "read"
    /\ Readable(in_file)
    /\ mid' = in_file
    /\ pc' = "type"
    /\ UNCHANGED <<in_file, top_tracks, input_tracks, removed_empty,
                   skipped_count, new_mid, merge_vars, combine_vars, batch_vars>>

\* if mid.type == 0: ... elif mid.type == 1: ... else: skipped, continue
CheckType ==
    /\ pc = "type"
    /\ \/ /\ mid.type = 0
          /\ mid.tracks # <<>>
          /\ mid' = convert_type0_to_type1(mid)
          /\ pc' = "select"
          /\ UNCHANGED skipped_count
       \/ /\ mid.type = 1
          /\ pc' = "select"
          /\ UNCHANGED <<mid, skipped_count>>
       \/ /\ mid.type \notin {0, 1}
          /\ skipped_count' = skipped_count + 1
          /\ pc' = "done"
          /\ UNCHANGED mid
    /\ UNCHANGED <<in_file, top_tracks, input_tracks, removed_empty, new_mid,
                   merge_vars, combine_vars, batch_vars>>

\* track_info, substantial_tracks, removed_empty, the sort, the cut to
\* max_tracks and the channel of each kept track.
SelectTracks ==
    /\ pc = "select"
    /\ removed_empty' = Len(track_info_of(mid))
                        - Len(substantial_tracks(track_info_of(mid)))
    /\ top_tracks' = select_top_tracks(mid)
    /\ input_tracks' = select_top_tracks(mid)
    /\ pc' = "standardize"
    /\ UNCHANGED <<in_file, mid, skipped_count, new_mid, merge_vars, combine_vars, batch_vars>>

\* top_tracks = self.standardize_channels(top_tracks)
Standardize ==
    /\ pc = "standardize"
    /\ top_tracks' = standardize_channels(top_tracks)
    /\ pc' = "bass"
    /\ UNCHANGED <<in_file, mid, input_tracks, removed_empty, skipped_count,
                   new_mid, merge_vars, combine_vars, batch_vars>>

\* top_tracks = self.detect_bass_track(top_tracks)
DetectBass ==
    /\ pc = "bass"
    /\ top_tracks' = detect_bass_track(top_tracks)
    /\ pc' = "save"
    /\ UNCHANGED <<in_file, mid, input_tracks, removed_empty, skipped_count,
                   new_mid, merge_vars, combine_vars, batch_vars>>

\* top_tracks.sort(key=channel); new_mid with the kept tracks; new_mid.save
SaveFile ==
    /\ pc = "save"
    /\ top_tracks' = SortByChannel(top_tracks)
    /\ new_mid' = [type |-> 1,
                   ticks_per_beat |-> mid.ticks_per_beat,
                   tracks |-> [k \in 1..Len(top_tracks) |->
                                  SortByChannel(top_tracks)[k].track]]
    /\ written' = [written EXCEPT ![file_idx] = new_mid']
    /\ pc' = "done"
    /\ UNCHANGED <<in_file, mid, input_tracks, removed_empty, skipped_count,
                   merge_vars, combine_vars, midi_files, file_idx>>

\* A variant where the read error leaves the loop instead of being caught.
ReadFails_aborts ==
    /\ pc = "read"
    /\ ~Readable(in_file)
    /\ pc' = "aborted"
    /\ UNCHANGED <<in_file, mid, top_tracks, input_tracks, removed_empty,
                   skipped_count, new_mid, merge_vars, combine_vars, batch_vars>>

\* except Exception: skipped_count += 1, when mido.MidiFile(midi_file) raises
ReadFails ==
    /\ pc = "read"
    /\ ~Readable(in_file)
    /\ skipped_count' = skipped_count + 1
    /\ pc' = "done"
    /\ UNCHANGED <<in_file, mid, top_tracks, input_tracks, removed_empty,
                   new_mid, merge_vars, combine_vars, batch_vars>>

\* except Exception: skipped_count += 1, when mid.tracks[0] raises in
\* convert_type0_to_type1 (a Type-0 file without a track)
ConvertFails ==
    /\ pc = "type"
    /\ mid.type = 0
    /\ mid.tracks = <<>>
    /\ skipped_count' = skipped_count + 1
    /\ pc' = "done"
    /\ UNCHANGED <<in_file, mid, top_tracks, input_tracks, removed_empty,
                   new_mid, merge_vars, combine_vars, batch_vars>>

\* except Exception: skipped_count += 1, when new_mid.save(output_file) raises
SaveFails ==
    /\ pc = "save"
    /\ top_tracks' = SortByChannel(top_tracks)
    /\ new_mid' = [type |-> 1,
                   ticks_per_beat |-> mid.ticks_per_beat,
                   tracks |-> [k \in 1..Len(top_tracks) |->
                                  SortByChannel(top_tracks)[k].track]]
    /\ skipped_count' = skipped_count + 1
    /\ pc' = "done"
    /\ UNCHANGED <<in_file, mid, input_tracks, removed_empty,
                   merge_vars, combine_vars, batch_vars>>

\* for midi_file in midi_files: the next round of the loop.  The locals of
\* the round before keep their values until the round assigns them.
NextFile ==
    /\ pc = "done"
    /\ file_idx < Len(midi_files)
    /\ file_idx' = file_idx + 1
    /\ in_file' = midi_files[file_idx + 1]
    /\ pc' = "read"
    /\ UNCHANGED <<mid, top_tracks, input_tracks, removed_empty, skipped_count,
                   new_mid, midi_files, written, merge_vars, combine_vars>>

\* new_mid = self.convert_type0_to_type1(mid), on its own
ConvertType0 ==
    /\ pc = "convert"
    /\ mid' = convert_type0_to_type1(mid)
    /\ pc' = "converted"
    /\ UNCHANGED <<in_file, top_tracks, input_tracks, removed_empty,
                   skipped_count, new_mid, merge_vars, combine_vars, batch_vars>>

(***************************************************************************)
(* The files the filter is run on.  A Type-0 file holds in its one track,  *)
(* between a tempo message and the end of track, one run of note-ons for   *)
(* each channel of FilterChans (one channel more than max_tracks), each    *)
(* run just below, at or just above min_events long.  A Type-1 file holds  *)
(* a meta track and one such run per track, on the channels of             *)
(* FilterChans and on channel 3.  A Type-2 file holds one meta track.      *)
(***************************************************************************)
FilterChans == <<0, 9, 5, 1, 12, 2>>
CountPool == {min_events - 1, min_events, min_events + 1}
TicksPool == {96, 480}

\* n note-ons on channel ch, in the bass register for channel 5.
Run(ch, n) == [k \in 1..n |-> NoteOn(ch, IF ch = 5 THEN 36 ELSE 60, 64, 1)]

\* The runs of the channels chans[k], chans[k+1], ... one after the other.
RECURSIVE Runs(_, _, _)
Runs(chans, counts, k) ==
    IF k > Len(chans) THEN <<>>
    ELSE Run(chans[k], counts[k]) \o Runs(chans, counts, k + 1)

Type0File(chans, counts, tpb) ==
    [type |-> 0, ticks_per_beat |-> tpb,
     tracks |-> << <<MetaMessage("set_tempo", 0)>> \o Runs(chans, counts, 1)
                   \o <<MetaMessage("end_of_track", 1)>> >>]

Type1File(chans, counts, tpb) ==
    [type |-> 1, ticks_per_beat |-> tpb,
     tracks |-> << <<MetaMessage("set_tempo", 0), MetaMessage("end_of_track", 0)>> >>
                \o [k \in 1..Len(chans) |->
                       Run(chans[k], counts[k])
                       \o <<MetaMessage("end_of_track", 1)>>]]

Type2File(tpb) ==
    [type |-> 2, ticks_per_beat |-> tpb,
     tracks |-> << <<MetaMessage("end_of_track", 0)>> >>]

InitFilter ==
    /\ \/ \E counts \in [1..Len(FilterChans) -> CountPool], tpb \in TicksPool :
             in_file = Type0File(FilterChans, counts, tpb)
       \/ \E counts \in [1..(Len(FilterChans) + 1) -> CountPool], tpb \in TicksPool :
             in_file = Type1File(FilterChans \o <<3>>, counts, tpb)
       \/ \E tpb \in TicksPool : in_file = Type2File(tpb)
    /\ pc = "read"
    /\ mid = NoFile
    /\ top_tracks = <<>>
    /\ input_tracks = <<>>
    /\ removed_empty = 0
    /\ skipped_count = 0
    /\ new_mid = NoFile
    /\ NoMerge
    /\ NoCombine
    /\ midi_files = <<in_file>>
    /\ file_idx = 1
    /\ written = <<NoFile>>

NextFilter ==
    \/ ReadFile
    \/ CheckType
    \/ SelectTracks
    \/ Standardize
    \/ DetectBass
    \/ SaveFile

SpecFilter == InitFilter /\ [][NextFilter]_vars

(***************************************************************************)
(* The track lists standardize_channels and detect_bass_track are run on:  *)
(* up to MaxTracksIn tracks, each a track name, one or two note-ons and    *)
(* the end of track.  A track's note-ons are on one channel of ChanPool,   *)
(* or the first on channel 0 or 9 and the second on channel 5; a track may *)
(* also hold one control change and no note, or no channel message at all. *)
(***************************************************************************)
MaxTracksIn == 3
ChanPool == {0, 1, 5, 9}
NotePool == { <<36>>, <<36, 36>>, <<36, 60>>, <<60>> }

Framed(msgs) ==
    <<MetaMessage("track_name", 0)>> \o msgs \o <<MetaMessage("end_of_track", 0)>>

TrackPool ==
    {Framed([k \in 1..Len(notes) |-> NoteOn(ch, notes[k], 64, 0)]) :
        ch \in ChanPool, notes \in NotePool}
    \cup {Framed(<<NoteOn(ch, 36, 64, 0), NoteOn(5, 36, 64, 0)>>) : ch \in {0, 9}}
    \cup {Framed(<<ControlChange(ch, 0)>>) : ch \in ChanPool}
    \cup {Framed(<<>>)}

TrackLists == UNION {[1..n -> TrackPool] : n \in 1..MaxTracksIn}

\* The TrackInfo list process_files hands to standardize_channels when it
\* keeps every track of the list.
TrackInfoOf(tracks) ==
    WithChannels(track_info_of([type |-> 1, ticks_per_beat |-> 480,
                                tracks |-> tracks]))

InitChannels ==
    /\ \E tracks \in TrackLists : top_tracks = TrackInfoOf(tracks)
    /\ input_tracks = top_tracks
    /\ pc = "standardize"
    /\ in_file = NoFile
    /\ mid = NoFile
    /\ removed_empty = 0
    /\ skipped_count = 0
    /\ new_mid = NoFile
    /\ NoMerge
    /\ NoCombine
    /\ NoBatch

NextChannels ==
    \/ Standardize
    \/ DetectBass

SpecChannels == InitChannels /\ [][NextChannels]_vars

\* The tracks detect_bass_track is run on by itself: those of TrackPool but
\* for all but one of the tracks on channel 9, of the tracks with one
\* control change and of the two-channel tracks.
BassPool ==
    {Framed([k \in 1..Len(notes) |-> NoteOn(ch, notes[k], 64, 0)]) :
        ch \in ChanPool \ {9}, notes \in NotePool}
    \cup {Framed(<<NoteOn(9, 36, 64, 0)>>),
          Framed(<<NoteOn(0, 36, 64, 0), NoteOn(5, 36, 64, 0)>>),
          Framed(<<ControlChange(1, 0)>>),
          Framed(<<>>)}

BassLists == UNION {[1..n -> BassPool] : n \in 1..MaxTracksIn}

\* detect_bass_track on its own, on lists as they are read and on lists that
\* standardize_channels has returned.
InitBass ==
    /\ \E tracks \in BassLists :
          \/ top_tracks = TrackInfoOf(tracks)
          \/ top_tracks = standardize_channels(TrackInfoOf(tracks))
    /\ input_tracks = top_tracks
    /\ pc = "bass"
    /\ in_file = NoFile
    /\ mid = NoFile
    /\ removed_empty = 0
    /\ skipped_count = 0
    /\ new_mid = NoFile
    /\ NoMerge
    /\ NoCombine
    /\ NoBatch

NextBass == DetectBass

SpecBass == InitBass /\ [][NextBass]_vars

(***************************************************************************)
(* Claims on the Channel Standardizer and the Bass Relocator               *)
(***************************************************************************)
Melodic(t) == t.channel # 9

ChannelsOf(track) ==
    {track[k].channel : k \in {j \in 1..Len(track) : hasattr(track[j], "channel")}}

\* The entry of the list before standardization that stands for the same
\* track as t (the same 'index').
Original(t) ==
    input_tracks[CHOOSE k \in 1..Len(input_tracks) : input_tracks[k].index = t.index]

\* C1: after standardize_channels and detect_bass_track no two kept melodic
\* tracks (channel other than 9) have the same channel; stated for the
\* tracks that hold channel-voice messages.
C1_NoSharedMelodicChannel ==
    pc = "save" =>
        \A i, j \in 1..Len(top_tracks) :
            (/\ i # j
             /\ Melodic(top_tracks[i]) /\ Melodic(top_tracks[j])
             /\ ChannelsOf(top_tracks[i].track) # {}
             /\ ChannelsOf(top_tracks[j].track) # {})
                => top_tracks[i].channel # top_tracks[j].channel

\* C2: after standardize_channels every track of the melodic partition (its
\* channel on entry was not 9) has its channel in {0,1,2,3}, and every track
\* of the percussion partition has channel 9.
C2_StandardChannels ==
    pc = "bass" =>
        /\ Len(top_tracks) = Len(input_tracks)
        /\ \A k \in 1..Len(top_tracks) :
              IF Original(top_tracks[k]).channel = 9
              THEN top_tracks[k].channel = 9
              ELSE top_tracks[k].channel \in {0, 1, 2, 3}

\* C2's case: a list with a percussion track, a melodic track that came in
\* on a channel outside 0..3 and one that came in with no channel at all.
C2_Witness ==
    /\ pc = "bass"
    /\ \E i, j, k \in 1..Len(top_tracks) :
          /\ Original(top_tracks[i]).channel = 9
          /\ Original(top_tracks[j]).channel = 5
          /\ Original(top_tracks[k]).channel = 999

\* C3: after standardize_channels and detect_bass_track all channel-voice
\* messages of one kept track carry that track's TrackInfo channel.
C3_OneChannelPerTrack ==
    pc = "save" =>
        \A k \in 1..Len(top_tracks) :
            ChannelsOf(top_tracks[k].track) \subseteq {top_tracks[k].channel}

\* C7: detect_bass_track applied to its own output changes nothing: no
\* message channel, no TrackInfo channel, no annotation.
C7_BassIdempotent ==
    pc = "save" => detect_bass_track(top_tracks) = top_tracks

\* C7's case: the first application relocated the bass and swapped it with
\* one of two tracks that shared channel 1.
C7_Witness ==
    /\ pc = "save"
    /\ top_tracks # input_tracks
    /\ \E i, j \in 1..Len(input_tracks) :
          i # j /\ input_tracks[i].channel = 1 /\ input_tracks[j].channel = 1
    /\ \E k \in 1..Len(top_tracks) : hasattr(top_tracks[k], "swapped_from")

(***************************************************************************)
(* The drum streams merge_drum_tracks is run on: up to MaxDrumLen messages *)
(* each, on channel 9, note-ons of two pitches with delta 0 or 1, some     *)
(* with velocity 0; the primary stream plays at velocity 90, the secondary *)
(* at 100.                                                                 *)
(***************************************************************************)
MaxDrumLen == 2
DrumNotes == {38, 42}
DeltaPool == {0, 1}

DrumMessages(v) ==
    {NoteOn(9, n, vel, t) : n \in DrumNotes, vel \in {0, v}, t \in DeltaPool}

DrumStreams(v) == UNION {[1..n -> DrumMessages(v)] : n \in 0..MaxDrumLen}

InitMerge ==
    /\ track5_msgs \in DrumStreams(90)
    /\ track6_msgs \in DrumStreams(100)
    /\ merged_drums = <<>>
    /\ pc = "merge"
    /\ in_file = NoFile
    /\ mid = NoFile
    /\ top_tracks = <<>>
    /\ input_tracks = <<>>
    /\ removed_empty = 0
    /\ skipped_count = 0
    /\ new_mid = NoFile
    /\ NoCombine
    /\ NoBatch

NextMerge == MergeDrums

SpecMerge == InitMerge /\ [][NextMerge]_vars

(***************************************************************************)
(* Claims on the Drum Merger and the Event Timeline                        *)
(***************************************************************************)
\* A sequence as a bag: how often each element occurs in it.
BagOf(seq) ==
    [x \in {seq[k] : k \in 1..Len(seq)} |->
        Cardinality({k \in 1..Len(seq) : seq[k] = x})]

\* Every message of a track with its absolute tick, the delta set aside.
AtTicks(track) ==
    LET at == abs_times(track)
    IN [k \in 1..Len(track) |-> <<at[k], [track[k] EXCEPT !.time = 0]>>]

\* Whether secondary has an onset of the same note at the same absolute tick
\* as message k of primary.
Conflicts(primary, k, secondary) ==
    \E j \in 1..Len(secondary) :
        /\ secondary[j].type = "note_on" /\ secondary[j].velocity > 0
        /\ secondary[j].note = primary[k].note
        /\ abs_times(secondary)[j] = abs_times(primary)[k]

\* The messages of primary the claim says survive, in order.
Survivors(primary, secondary) ==
    LET RECURSIVE From(_)
        From(k) ==
            IF k > Len(primary) THEN <<>>
            ELSE (IF /\ primary[k].type = "note_on" /\ primary[k].velocity > 0
                     /\ Conflicts(primary, k, secondary)
                  THEN <<>> ELSE <<AtTicks(primary)[k]>>)
                 \o From(k + 1)
    IN From(1)

\* C4: the result holds every message of secondary at its original absolute
\* tick, and of primary exactly the messages that are not an onset
\* (note-on, velocity > 0) whose note secondary also starts at the same tick.
C4_MergePriority ==
    pc = "merged" =>
        BagOf(AtTicks(merged_drums))
            = BagOf(AtTicks(track6_msgs) \o Survivors(track5_msgs, track6_msgs))

\* C4's case: one onset of primary dropped for an onset of secondary on the
\* same note and tick, another onset of primary on that note one tick later
\* kept.
C4_Witness ==
    /\ pc = "merged"
    /\ \E k, m \in 1..Len(track5_msgs) :
          /\ k # m
          /\ track5_msgs[k].velocity > 0 /\ track5_msgs[m].velocity > 0
          /\ Conflicts(track5_msgs, k, track6_msgs)
          /\ ~Conflicts(track5_msgs, m, track6_msgs)
          /\ \E j \in 1..Len(track6_msgs) :
                /\ track6_msgs[j].velocity > 0
                /\ track6_msgs[j].note = track5_msgs[m].note
                /\ abs_times(track5_msgs)[m] = abs_times(track6_msgs)[j] + 1
    /\ Len(merged_drums) = Len(track5_msgs) + Len(track6_msgs) - 1

(***************************************************************************)
(* The Type-0 files convert_type0_to_type1 is run on by itself: one track  *)
(* of up to MaxSplitLen messages with delta 0 or 1, each a note-on or a    *)
(* note-off on channel 0 or 1, a text meta message or a system-exclusive   *)
(* message.                                                                *)
(***************************************************************************)
MaxSplitLen == 3
SplitChans == {0, 1}

SplitMessages ==
    {NoteOn(ch, 60, 64, t) : ch \in SplitChans, t \in DeltaPool}
    \cup {NoteOff(ch, 60, t) : ch \in SplitChans, t \in DeltaPool}
    \cup {MetaMessage("text", t) : t \in DeltaPool}
    \cup {SysEx(t) : t \in DeltaPool}

SplitTracks == UNION {[1..n -> SplitMessages] : n \in 0..MaxSplitLen}

InitSplit ==
    /\ \E track \in SplitTracks, tpb \in TicksPool :
          in_file = [type |-> 0, ticks_per_beat |-> tpb, tracks |-> <<track>>]
    /\ mid = in_file
    /\ pc = "convert"
    /\ top_tracks = <<>>
    /\ input_tracks = <<>>
    /\ removed_empty = 0
    /\ skipped_count = 0
    /\ new_mid = NoFile
    /\ NoMerge
    /\ NoCombine
    /\ NoBatch

NextSplit == ConvertType0

SpecSplit == InitSplit /\ [][NextSplit]_vars

\* The two users of the Event Timeline side by side.
InitTimeline == InitMerge \/ InitSplit

NextTimeline ==
    \/ MergeDrums
    \/ ConvertType0

SpecTimeline == InitTimeline /\ [][NextTimeline]_vars

(***************************************************************************)
(* Claims on the Channel Splitter                                          *)
(***************************************************************************)
\* How many messages of one type on one channel a track holds.
CountOf(track, type, channel) ==
    Cardinality({k \in 1..Len(track) :
        /\ track[k].type = type
        /\ hasattr(track[k], "channel")
        /\ track[k].channel = channel})

RECURSIVE SumOver(_, _, _)
SumOver(tracks, type, channel) ==
    IF tracks = <<>> THEN 0
    ELSE CountOf(Head(tracks), type, channel)
         + SumOver(Tail(tracks), type, channel)

IsMetaTrack(track) == \A k \in 1..Len(track) : track[k].is_meta

\* C5: every track of the converted file is the meta track or holds
\* channel-voice messages of exactly one channel, and for every channel the
\* note-ons and the note-offs of all tracks together are as many as in the
\* original track.
C5_SplitByChannel ==
    pc = "converted" =>
        /\ \A k \in 1..Len(mid.tracks) :
              \/ IsMetaTrack(mid.tracks[k])
              \/ Cardinality(ChannelsOf(mid.tracks[k])) = 1
        /\ \A channel \in 0..15 : \A type \in {"note_on", "note_off"} :
              SumOver(mid.tracks, type, channel)
                  = CountOf(in_file.tracks[1], type, channel)

\* C5's case: a track with a meta message and notes on two channels, split
\* into the meta track and two channel tracks.
C5_Witness ==
    /\ pc = "converted"
    /\ Len(mid.tracks) = 3
    /\ CountOf(in_file.tracks[1], "note_on", 0) > 0
    /\ CountOf(in_file.tracks[1], "note_off", 1) > 0

\* C6: absolute times and back gives the track itself; a merge with an
\* empty secondary returns primary, deltas and order unchanged; and the
\* splitter returns a track whose messages are all on one channel as it
\* was, followed by the end of track.
C6_RoundTrip ==
    /\ pc = "merged" =>
          /\ to_delta_times(get_abs_times(track5_msgs)) = track5_msgs
          /\ to_delta_times(get_abs_times(track6_msgs)) = track6_msgs
          /\ track6_msgs = <<>> => merged_drums = track5_msgs
    /\ pc = "converted" =>
          LET original_track == in_file.tracks[1] IN
          /\ to_delta_times(get_abs_times(original_track)) = original_track
          /\ (/\ original_track # <<>>
              /\ \E channel \in 0..15 : \A k \in 1..Len(original_track) :
                    GoesToChannel(original_track[k], channel))
                => mid.tracks
                     = <<Append(original_track, MetaMessage("end_of_track", 0))>>

\* C6's case: a primary of full length with non-zero deltas merged with an
\* empty secondary.
C6_Witness ==
    /\ pc = "merged"
    /\ track6_msgs = <<>>
    /\ Len(track5_msgs) = MaxDrumLen
    /\ \A k \in 1..Len(track5_msgs) : track5_msgs[k].time > 0
    /\ merged_drums = track5_msgs


(***************************************************************************)
(* Claims on the Track Selector and on the filter as a whole               *)
(***************************************************************************)
\* Whether the track with TrackInfo a is ranked before the one with b: more
\* events, or as many and an earlier place in the file.
RankedBefore(a, b) ==
    \/ a.events > b.events
    \/ a.events = b.events /\ a.index < b.index

\* The places (from 0) of the tracks of the file that reach min_events.
Substantial(m) ==
    {k \in 0..(Len(m.tracks) - 1) : count_track_events(m.tracks[k + 1]) >= min_events}

Min(a, b) == IF a < b THEN a ELSE b

\* C8: the kept list holds tracks that reach min_events only, ordered by
\* event count descending and then by place in the file, and is the first
\* max_tracks of all such tracks in that order.
C8_Selection ==
    pc = "standardize" =>
        /\ Len(top_tracks) = Min(Cardinality(Substantial(mid)), max_tracks)
        /\ \A k \in 1..Len(top_tracks) :
              /\ top_tracks[k].index \in Substantial(mid)
              /\ top_tracks[k].track = mid.tracks[top_tracks[k].index + 1]
              /\ top_tracks[k].events = count_track_events(top_tracks[k].track)
        /\ \A i, j \in 1..Len(top_tracks) :
              i < j => RankedBefore(top_tracks[i], top_tracks[j])
        /\ \A q \in Substantial(mid) :
              (\A k \in 1..Len(top_tracks) : top_tracks[k].index # q)
                  => \A k \in 1..Len(top_tracks) :
                        RankedBefore(top_tracks[k],
                                     [index |-> q,
                                      events |-> count_track_events(mid.tracks[q + 1])])

\* C8's case: more than max_tracks tracks reach min_events, one track is
\* dropped for too few events, and the kept list has both a tie and a step.
C8_Witness ==
    /\ pc = "standardize"
    /\ Cardinality(Substantial(mid)) > max_tracks
    /\ removed_empty = 2
    /\ \E i, j \in 1..Len(top_tracks) :
          i < j /\ top_tracks[i].events = top_tracks[j].events
    /\ \E i, j \in 1..Len(top_tracks) :
          i < j /\ top_tracks[i].events > top_tracks[j].events

\* The non-meta messages of the track on one channel.
EventsOn(track, channel) ==
    Cardinality({k \in 1..Len(track) :
        /\ ~track[k].is_meta
        /\ hasattr(track[k], "channel")
        /\ track[k].channel = channel})

\* The channels of the Type-0 track that reach min_events, and those that
\* have messages but fewer.
QualifiedChannels(track) == {c \in 0..15 : EventsOn(track, c) >= min_events}
SparseChannels(track) ==
    {c \in 0..15 : EventsOn(track, c) > 0 /\ EventsOn(track, c) < min_events}

\* C9: the file written for a Type-0 input is a Type-1 file with one track
\* for each channel that reaches min_events, at most max_tracks of them, and
\* no other track; the tracks dropped for fewer events (the sparse channels
\* and the meta track) are what removed_empty counts.
C9_Type0Pipeline ==
    (pc = "done" /\ in_file.type = 0) =>
        LET original_track == in_file.tracks[1] IN
        /\ new_mid.type = 1
        /\ Len(new_mid.tracks)
              = Min(Cardinality(QualifiedChannels(original_track)), max_tracks)
        /\ Len(top_tracks) = Len(new_mid.tracks)
        /\ \A k \in 1..Len(new_mid.tracks) :
              /\ new_mid.tracks[k] = top_tracks[k].track
              /\ Original(top_tracks[k]).channel \in QualifiedChannels(original_track)
              /\ count_track_events(new_mid.tracks[k])
                    = EventsOn(original_track, Original(top_tracks[k]).channel)
              /\ Cardinality(ChannelsOf(new_mid.tracks[k])) = 1
        /\ \A i, j \in 1..Len(top_tracks) :
              i # j => Original(top_tracks[i]).channel # Original(top_tracks[j]).channel
        /\ removed_empty
              = Cardinality(SparseChannels(original_track))
                + (IF \E k \in 1..Len(original_track) : original_track[k].is_meta
                   THEN 1 ELSE 0)

\* C9's case: a Type-0 file with max_tracks channels that reach min_events
\* and one that does not.
C9_Witness ==
    /\ pc = "done"
    /\ in_file.type = 0
    /\ Len(new_mid.tracks) = max_tracks
    /\ Cardinality(SparseChannels(in_file.tracks[1])) = 1
    /\ removed_empty = 2


(***************************************************************************)
(* The folders the combiner is run on: at most one of 1.mid .. 6.mid is    *)
(* missing, at most one file has another ticks_per_beat than the rest,     *)
(* the melodic files hold one track or two, the drum files a short stream. *)
(***************************************************************************)
BpmPool == {100, 120}

MelodicPool ==
    { << <<TrackName("a", 0), NoteOn(0, 60, 64, 1), NoteOff(0, 60, 1),
           MetaMessage("end_of_track", 0)>> >>,
      << <<SetTempo(500000, 0), MetaMessage("text", 1),
           MetaMessage("end_of_track", 1)>>,
         <<TrackName("b", 1), NoteOn(5, 36, 64, 0), NoteOff(5, 36, 1),
           MetaMessage("end_of_track", 1)>> >>,
      << <<SetTempo(500000, 1), NoteOn(0, 60, 64, 1), NoteOff(0, 60, 1),
           MetaMessage("end_of_track", 0)>> >> }

DrumPool ==
    { << <<TrackName("d", 0), NoteOn(9, 38, 100, 0), NoteOn(9, 42, 100, 1),
           MetaMessage("end_of_track", 0)>> >>,
      << <<NoteOn(0, 38, 90, 0), NoteOn(0, 38, 0, 1), NoteOn(0, 42, 90, 0),
           MetaMessage("end_of_track", 1)>> >> }

FolderOf(missing, base, odd, other, melodic, drums) ==
    [i \in 1..6 |->
        [exists |-> i # missing,
         ticks_per_beat |-> IF i = odd THEN other ELSE base,
         tracks |-> IF i <= 4 THEN melodic[i] ELSE drums[i]]]

InitCombine ==
    /\ \E missing \in 0..6, odd \in 0..6, base \in TicksPool, other \in TicksPool,
          melodic \in [1..4 -> MelodicPool], drums \in [5..6 -> DrumPool] :
          /\ base # other
          /\ files = FolderOf(missing, base, odd, other, melodic, drums)
    /\ bpm \in BpmPool
    /\ delete_individual \in BOOLEAN
    /\ output_midi = NoFile
    /\ saved_midi = NoFile
    /\ error = NoError
    /\ pc = "combine"
    /\ in_file = NoFile
    /\ mid = NoFile
    /\ top_tracks = <<>>
    /\ input_tracks = <<>>
    /\ removed_empty = 0
    /\ skipped_count = 0
    /\ new_mid = NoFile
    /\ NoMerge
    /\ NoBatch

NextCombine ==
    \/ CombineMidiFiles
    \/ SaveCombined

SpecCombine == InitCombine /\ [][NextCombine]_vars

\* C10: the file written has the ticks_per_beat of every file it was built
\* from: the input file of the splitter and of the filter, and each of
\* 1.mid .. 6.mid for the combiner.
C10_SameTicksPerBeat ==
    /\ pc = "converted" => mid.ticks_per_beat = in_file.ticks_per_beat
    /\ (pc = "done" /\ in_file.type \in {0, 1})
          => new_mid.ticks_per_beat = in_file.ticks_per_beat
    /\ pc = "combine_done"
          => \A i \in 1..6 : saved_midi.ticks_per_beat = files[i].ticks_per_beat


(***************************************************************************)
(* The batches process_files is run on: up to MaxBatch files, each one an  *)
(* unreadable file, a Type-1 file with a bass track and a sparse track, a  *)
(* Type-0 file with two channels, a Type-0 file without a track, or a      *)
(* Type-2 file.                                                            *)
(***************************************************************************)
MaxBatch == 3

BatchPool ==
    { Unreadable,
      Type1File(<<5, 0>>, <<min_events, min_events - 1>>, 480),
      Type0File(<<0, 9>>, <<min_events, min_events>>, 96),
      [type |-> 0, ticks_per_beat |-> 96, tracks |-> <<>>],
      Type2File(96) }

InitBatch ==
    /\ \E n \in 1..MaxBatch : midi_files \in [1..n -> BatchPool]
    /\ file_idx = 1
    /\ in_file = midi_files[1]
    /\ written = [k \in 1..Len(midi_files) |-> NoFile]
    /\ pc = "read"
    /\ mid = NoFile
    /\ top_tracks = <<>>
    /\ input_tracks = <<>>
    /\ removed_empty = 0
    /\ skipped_count = 0
    /\ new_mid = NoFile
    /\ NoMerge
    /\ NoCombine

NextBatch ==
    \/ ReadFile
    \/ ReadFails
    \/ CheckType
    \/ ConvertFails
    \/ SelectTracks
    \/ Standardize
    \/ DetectBass
    \/ SaveFile
    \/ SaveFails
    \/ NextFile

SpecBatch == InitBatch /\ [][NextBatch]_vars

(***************************************************************************)
(* Claims on the batch loop                                                *)
(***************************************************************************)
\* Whether the loop is through with the file at place i.
Finished(i) == i < file_idx \/ (i = file_idx /\ pc = "done")

\* A file the loop body can read and transform.
Processable(file) ==
    /\ Readable(file)
    /\ file.type \in {0, 1}
    /\ file.type = 0 => file.tracks # <<>>

\* What the loop body writes for a file when nothing fails.
FilteredFile(file) ==
    LET m == IF file.type = 0 THEN convert_type0_to_type1(file) ELSE file
        kept == SortByChannel(detect_bass_track(standardize_channels(
                                                   select_top_tracks(m))))
    IN [type |-> 1,
        ticks_per_beat |-> file.ticks_per_beat,
        tracks |-> [k \in 1..Len(kept) |-> kept[k].track]]

\* C11: every file the loop is through with was either written or counted
\* once as skipped; a file is written with what the loop body makes of it
\* alone, whatever happened to the files before it; and after any file,
\* failed or not, the loop goes on to the next one.
C11_BatchGoesOn ==
    /\ pc \in {"read", "type", "select", "standardize", "bass", "save", "done"}
    /\ file_idx \in 1..Len(midi_files)
    /\ skipped_count
         + Cardinality({i \in 1..Len(midi_files) : Finished(i) /\ written[i] # NoFile})
       = Cardinality({i \in 1..Len(midi_files) : Finished(i)})
    /\ \A i \in 1..Len(midi_files) :
          written[i] # NoFile =>
              /\ Finished(i)
              /\ Processable(midi_files[i])
              /\ written[i] = FilteredFile(midi_files[i])
    /\ (pc = "done" /\ file_idx < Len(midi_files)) => ENABLED NextFile

\* A batch of three is finished: the first file could not be read, the
\* second could not be written, and the third, a Type-0 file, was written.
C11_Witness ==
    /\ pc = "done"
    /\ Len(midi_files) = 3
    /\ file_idx = 3
    /\ ~Readable(midi_files[1])
    /\ Processable(midi_files[2])
    /\ written[2] = NoFile
    /\ Processable(midi_files[3])
    /\ midi_files[3].type = 0
    /\ written[3] # NoFile
    /\ Len(written[3].tracks) > 0
    /\ skipped_count = 2


(***************************************************************************)
(* Claims on the combiner                                                  *)
(***************************************************************************)
\* C12: when one of 1.mid .. 6.mid is not in the folder, the call of
\* combine_midi_files ends in a FileNotFoundError that names a file that is
\* missing, the handler catches it, no combined file is returned or
\* written, and the folder is left as it was.
C12_MissingFileReported ==
    [][(pc = "combine" /\ \E i \in 1..6 : ~files[i].exists)
          => /\ pc' = "combine_failed"
             /\ error'.type = "FileNotFoundError"
             /\ error'.file \in 1..6
             /\ ~files[error'.file].exists
             /\ output_midi' = NoFile
             /\ saved_midi' = NoFile
             /\ files' = files]_vars

\* The call has failed on a folder without 5.mid.
C12_Witness ==
    /\ pc = "combine_failed"
    /\ ~files[5].exists
    /\ \A i \in (1..6) \ {5} : files[i].exists
    /\ error = [type |-> "FileNotFoundError", file |-> 5]
    /\ output_midi = NoFile


\* The channels of the channel-voice messages of a track.
VoiceChannels(track) ==
    {track[k].channel : k \in {j \in 1..Len(track) : hasattr(track[j], "channel")}}

\* Whether the track starts with the track name given and ends with an
\* end_of_track, both with delta time 0.
NamedTrack(track, name) ==
    /\ Len(track) >= 2
    /\ track[1] = [type |-> "track_name", is_meta |-> TRUE, name |-> name, time |-> 0]
    /\ track[Len(track)] = [type |-> "end_of_track", is_meta |-> TRUE, time |-> 0]

\* C13: the file combine_midi_files returns is a Type-1 file of six tracks:
\* the tempo track with the tempo of the BPM entered, the tracks CH1 .. CH4
\* whose channel-voice messages are on channel 0 .. 3, and the drum track
\* CH10 whose channel-voice messages are on channel 9.
C13_CombinedLayout ==
    output_midi # NoFile =>
        /\ output_midi.type = 1
        /\ Len(output_midi.tracks) = 6
        /\ Len(output_midi.tracks[1]) = 2
        /\ output_midi.tracks[1][1].type = "set_tempo"
        /\ output_midi.tracks[1][1].tempo * bpm = 60000000
        /\ output_midi.tracks[1][2].type = "end_of_track"
        /\ \A i \in 1..4 :
              /\ NamedTrack(output_midi.tracks[i + 1],
                            <<"CH1", "CH2", "CH3", "CH4">>[i])
              /\ VoiceChannels(output_midi.tracks[i + 1]) \subseteq {i - 1}
        /\ NamedTrack(output_midi.tracks[6], "CH10")
        /\ VoiceChannels(output_midi.tracks[6]) \subseteq {9}

\* A file was combined in which 2.mid held two tracks with notes on channel
\* 5 and 6.mid held notes on channel 0: the notes are now on channel 1 and 9.
C13_Witness ==
    /\ pc = "save_combined"
    /\ Len(files[2].tracks) = 2
    /\ 5 \in VoiceChannels(files[2].tracks[2])
    /\ VoiceChannels(output_midi.tracks[3]) = {1}
    /\ 0 \in VoiceChannels(files[6].tracks[1])
    /\ VoiceChannels(output_midi.tracks[6]) = {9}
    /\ bpm = 100
    /\ output_midi.tracks[1][1].tempo = 600000


(***************************************************************************)
(* Further claims on the Channel Splitter                                  *)
(***************************************************************************)
\* A message the splitter examines neither as a meta message nor as a
\* channel message.
Unexamined(msg) == ~msg.is_meta /\ ~hasattr(msg, "channel")

\* C14: every message of the input track that is neither a meta message nor
\* a channel message is found, with its kind, in some track of the
\* converted file.
C14_NoMessageLost ==
    pc = "converted" =>
        \A k \in 1..Len(in_file.tracks[1]) :
            Unexamined(in_file.tracks[1][k]) =>
                \E t \in 1..Len(mid.tracks) :
                    \E j \in 1..Len(mid.tracks[t]) :
                        /\ Unexamined(mid.tracks[t][j])
                        /\ mid.tracks[t][j].type = in_file.tracks[1][k].type


(***************************************************************************)
(* Further claims on the Bass Relocator.  In SpecBass input_tracks is the  *)
(* list detect_bass_track was called with and, from "save" on, top_tracks  *)
(* the list it returned.                                                   *)
(***************************************************************************)
\* The places of the note-ons of a track, and of those below note 48.
NoteOns(track) == {k \in 1..Len(track) : track[k].type = "note_on"}

LowNoteOns(track) == {k \in NoteOns(track) : track[k].note < 48}

\* A track that can be the bass: not on channel 9 or 999, and more than half
\* of its note-ons below note 48.
Qualifies(t) ==
    /\ t.channel \notin {9, 999}
    /\ 2 * Cardinality(LowNoteOns(t.track)) > Cardinality(NoteOns(t.track))

\* The list position of the bass candidate (0 when no track qualifies): the
\* largest count of low note-ons, the first such in list order.
Candidate(tracks) ==
    LET q == {k \in 1..Len(tracks) : Qualifies(tracks[k])}
        low(k) == Cardinality(LowNoteOns(tracks[k].track))
    IN IF q = {} THEN 0
       ELSE CHOOSE k \in q :
               \A j \in q : low(j) < low(k) \/ (low(j) = low(k) /\ k <= j)

\* Whether message b is message a but for the channel.
SameButChannel(a, b) ==
    /\ DOMAIN a = DOMAIN b
    /\ \A f \in DOMAIN a \ {"channel"} : a[f] = b[f]

\* C15: detect_bass_track returns as many tracks, in the same order, each
\* with as many messages, each message the one it was but for the channel
\* of channel-voice messages; only the candidate and at most one track that
\* was on channel 1 are touched; without a candidate, or with the candidate
\* on channel 1 already, the list comes back as it was.
C15_BassFrame ==
    pc = "save" =>
        LET b == Candidate(input_tracks)
            touched == {k \in 1..Len(input_tracks) :
                           top_tracks[k].track # input_tracks[k].track}
        IN /\ Len(top_tracks) = Len(input_tracks)
           /\ \A k \in 1..Len(input_tracks) :
                 /\ top_tracks[k].index = input_tracks[k].index
                 /\ top_tracks[k].events = input_tracks[k].events
                 /\ Len(top_tracks[k].track) = Len(input_tracks[k].track)
                 /\ \A j \in 1..Len(input_tracks[k].track) :
                       SameButChannel(input_tracks[k].track[j], top_tracks[k].track[j])
           /\ Cardinality(touched \ {b}) <= 1
           /\ \A k \in touched \ {b} : input_tracks[k].channel = 1
           /\ (b = 0 \/ input_tracks[b].channel = 1) => top_tracks = input_tracks

\* The bass was swapped with a track on channel 1 in a list of three, and
\* the third track, with a message on another channel, was left alone.
C15_Witness ==
    /\ pc = "save"
    /\ Len(input_tracks) = 3
    /\ Candidate(input_tracks) # 0
    /\ input_tracks[Candidate(input_tracks)].channel = 5
    /\ \E k \in 1..3 :
          /\ input_tracks[k].channel = 1
          /\ top_tracks[k].track # input_tracks[k].track
    /\ \E k \in 1..3 :
          /\ input_tracks[k].channel = 0
          /\ top_tracks[k] = input_tracks[k]

\* C18: the track detect_bass_track picks is the candidate: among the tracks
\* off channel 9 and 999 with more than half of their note-ons below note
\* 48, the one with most such note-ons, the first of them in list order; a
\* track with half or none of its note-ons low, or without note-ons, is not
\* picked; and the track marked as bass is the one picked.
C18_BassCandidate ==
    pc = "save" =>
        LET b == bass_track_index(input_tracks)
        IN /\ b = Candidate(input_tracks)
           /\ b # 0 =>
                 /\ NoteOns(input_tracks[b].track) # {}
                 /\ 2 * Cardinality(LowNoteOns(input_tracks[b].track))
                       # Cardinality(NoteOns(input_tracks[b].track))
           /\ \A k \in 1..Len(top_tracks) :
                 (hasattr(top_tracks[k], "is_bass")
                    /\ ~hasattr(input_tracks[k], "is_bass")) => k = b

\* The second track won over a first track with fewer low note-ons and over
\* a track with exactly half of its note-ons low.
C18_Witness ==
    /\ pc = "save"
    /\ Len(input_tracks) = 3
    /\ Candidate(input_tracks) = 2
    /\ Qualifies(input_tracks[1])
    /\ Cardinality(NoteOns(input_tracks[3].track)) = 2
    /\ Cardinality(LowNoteOns(input_tracks[3].track)) = 1
    /\ input_tracks[3].channel \notin {9, 999}
    /\ hasattr(top_tracks[2], "is_bass")

\* C19: with the candidate on a channel c other than 1, afterwards the
\* candidate is on channel 1; the first other track that was on channel 1,
\* if there is one, is on channel c; TrackInfo channel and message channels
\* agree on both; and channels that were pairwise distinct still are.
C19_BassSwap ==
    (pc = "save" /\ Candidate(input_tracks) # 0
        /\ input_tracks[Candidate(input_tracks)].channel # 1) =>
        LET b == Candidate(input_tracks)
            c == input_tracks[b].channel
            on1 == {k \in 1..Len(input_tracks) : k # b /\ input_tracks[k].channel = 1}
        IN /\ top_tracks[b].channel = 1
           /\ ChannelsOf(top_tracks[b].track) \subseteq {1}
           /\ on1 # {} =>
                 LET o == CHOOSE k \in on1 : \A j \in on1 : k <= j
                 IN /\ top_tracks[o].channel = c
                    /\ ChannelsOf(top_tracks[o].track) \subseteq {c}
                    /\ \A k \in 1..Len(input_tracks) :
                          k \notin {b, o} => top_tracks[k] = input_tracks[k]
           /\ on1 = {} =>
                 \A k \in 1..Len(input_tracks) :
                     k # b => top_tracks[k] = input_tracks[k]
           /\ (\A i, j \in 1..Len(input_tracks) :
                   i # j => input_tracks[i].channel # input_tracks[j].channel)
                => \A i, j \in 1..Len(top_tracks) :
                       i # j => top_tracks[i].channel # top_tracks[j].channel

\* Three tracks on the channels 0, 1 and 5, the bass on channel 5: it went
\* to channel 1 and the track of channel 1 went to channel 5, messages too.
C19_Witness ==
    /\ pc = "save"
    /\ Len(input_tracks) = 3
    /\ {input_tracks[k].channel : k \in 1..3} = {0, 1, 5}
    /\ Candidate(input_tracks) # 0
    /\ input_tracks[Candidate(input_tracks)].channel = 5
    /\ {top_tracks[k].channel : k \in 1..3} = {0, 1, 5}
    /\ \E k \in 1..3 :
          /\ input_tracks[k].channel = 1
          /\ top_tracks[k].channel = 5
          /\ ChannelsOf(top_tracks[k].track) = {5}


(***************************************************************************)
(* The cursor of standardize_channels, on lists of up to MaxCursorLen      *)
(* tracks of one note each on channel 0, 1, 7, 8 or 9, or without any      *)
(* channel message.                                                        *)
(***************************************************************************)
MaxCursorLen == 4
CursorChans == {0, 1, 7, 8, 9}

CursorPool ==
    {Framed(<<NoteOn(ch, 60, 64, 0)>>) : ch \in CursorChans} \cup {Framed(<<>>)}

InitCursor ==
    /\ \E n \in 1..MaxCursorLen : \E tracks \in [1..n -> CursorPool] :
          top_tracks = TrackInfoOf(tracks)
    /\ input_tracks = top_tracks
    /\ pc = "standardize"
    /\ in_file = NoFile
    /\ mid = NoFile
    /\ removed_empty = 0
    /\ skipped_count = 0
    /\ new_mid = NoFile
    /\ NoMerge
    /\ NoCombine
    /\ NoBatch

NextCursor == Standardize

SpecCursor == InitCursor /\ [][NextCursor]_vars

\* The channels of the TrackInfos of a list, in list order.
ChannelList(tracks) == [k \in 1..Len(tracks) |-> tracks[k].channel]

\* C17: in the list standardize_channels returns, the melodic tracks follow
\* the drum tracks in their original order; the melodic track at place i
\* (from 0) among them is on channel i mod 4 if its channel was outside
\* 0..3 and on its own channel otherwise; so 0, 7, 1, 8 gives 0, 1, 1, 3.
C17_CursorAdvances ==
    pc = "bass" =>
        LET melodic == SelectSeq(input_tracks, Melodic)
            drums == Len(input_tracks) - Len(melodic)
        IN /\ Len(top_tracks) = Len(input_tracks)
           /\ \A i \in 0..(Len(melodic) - 1) :
                 /\ top_tracks[drums + i + 1].index = melodic[i + 1].index
                 /\ top_tracks[drums + i + 1].channel =
                       IF melodic[i + 1].channel \in {0, 1, 2, 3}
                       THEN melodic[i + 1].channel
                       ELSE i % 4
                 /\ melodic[i + 1].channel \in {0, 1, 2, 3}
                       => top_tracks[drums + i + 1] = melodic[i + 1]
           /\ ChannelList(input_tracks) = <<0, 7, 1, 8>>
                 => ChannelList(top_tracks) = <<0, 1, 1, 3>>

\* The list with the channels 0, 7, 1, 8 has been standardized.
C17_Witness ==
    /\ pc = "bass"
    /\ ChannelList(input_tracks) = <<0, 7, 1, 8>>
    /\ ChannelList(top_tracks) = <<0, 1, 1, 3>>
    /\ ChannelsOf(top_tracks[4].track) = {3}


(***************************************************************************)
(* Claims on the timing of the Channel Splitter                            *)
(***************************************************************************)
\* The absolute tick of message k of a track: the sum of the delta times up
\* to it.
RECURSIVE Tick(_, _)
Tick(track, k) == IF k = 0 THEN 0 ELSE Tick(track, k - 1) + track[k].time

\* The messages of a track in order, each with its absolute tick in place
\* of its delta time.
Placed(track) ==
    [k \in 1..Len(track) |-> <<Tick(track, k), [track[k] EXCEPT !.time = 0]>>]

\* C16: a channel track of the converted file holds, before its end of
\* track, the messages of its channel at the absolute ticks and in the
\* order they have in the input track; the meta track holds the meta
\* messages of the input track at their absolute ticks and in their order.
C16_SplitKeepsTicks ==
    pc = "converted" =>
        LET original == Placed(in_file.tracks[1]) IN
        \A t \in 1..Len(mid.tracks) :
            LET track == mid.tracks[t] IN
            IF ChannelsOf(track) # {}
            THEN /\ track[Len(track)] = [type |-> "end_of_track", is_meta |-> TRUE,
                                         time |-> 0]
                 /\ Placed(SubSeq(track, 1, Len(track) - 1))
                      = SelectSeq(original,
                                  LAMBDA p : /\ hasattr(p[2], "channel")
                                             /\ p[2].channel \in ChannelsOf(track))
            ELSE Placed(track) = SelectSeq(original, LAMBDA p : p[2].is_meta)

\* A track of a meta message and, one tick later, two messages of channel 0
\* on one tick was converted: the first channel message now has delta 2.
C16_Witness ==
    /\ pc = "converted"
    /\ Len(in_file.tracks[1]) = 3
    /\ in_file.tracks[1][1].is_meta
    /\ in_file.tracks[1][1].time = 1
    /\ in_file.tracks[1][2].type = "note_on"
    /\ in_file.tracks[1][2].time = 1
    /\ in_file.tracks[1][3].type = "note_off"
    /\ in_file.tracks[1][3].time = 0
    /\ in_file.tracks[1][3].channel = in_file.tracks[1][2].channel
    /\ Len(mid.tracks) = 2
    /\ mid.tracks[2][1].time = 2
    /\ mid.tracks[2][2].type = "note_off"


(***************************************************************************)
(* Claims on the order of the Drum Merger's result                         *)
(***************************************************************************)
\* Two sequences of (tick, message) pairs, each in tick order, woven into
\* one in tick order: at one tick the pairs of a come before those of b, and
\* the pairs of each keep their order.
RECURSIVE Woven(_, _)
Woven(a, b) ==
    IF a = <<>> THEN b
    ELSE IF b = <<>> THEN a
    ELSE IF Head(a)[1] <= Head(b)[1]
    THEN <<Head(a)>> \o Woven(Tail(a), b)
    ELSE <<Head(b)>> \o Woven(a, Tail(b))

\* C20: the result of merge_drum_tracks has no negative delta, so its
\* messages are in absolute-tick order, and it is the surviving messages of
\* primary woven with those of secondary: at one tick primary comes first,
\* and each stream keeps its order.
C20_MergeOrder ==
    pc = "merged" =>
        /\ \A k \in 1..Len(merged_drums) : merged_drums[k].time >= 0
        /\ Placed(merged_drums)
             = Woven(Survivors(track5_msgs, track6_msgs), Placed(track6_msgs))

\* Two streams of two messages, none dropped; the second message of primary
\* and the first of secondary are on one tick, after the first of primary.
C20_Witness ==
    /\ pc = "merged"
    /\ Len(track5_msgs) = 2
    /\ Len(track6_msgs) = 2
    /\ Len(merged_drums) = 4
    /\ Tick(track5_msgs, 1) < Tick(track5_msgs, 2)
    /\ Tick(track5_msgs, 2) = Tick(track6_msgs, 1)
    /\ Tick(track6_msgs, 1) = Tick(track6_msgs, 2)
    /\ Placed(merged_drums)[2] = Placed(track5_msgs)[2]
    /\ Placed(merged_drums)[3] = Placed(track6_msgs)[1]


(***************************************************************************)
(* Claims on the delta times the Event Timeline writes                     *)
(***************************************************************************)
NoNegativeDelta(track) == \A k \in 1..Len(track) : track[k].time >= 0

\* C21: when no delta time of the input is negative, no delta time of the
\* list merge_drum_tracks returns and of any track convert_type0_to_type1
\* returns is negative.
C21_DeltasNotNegative ==
    /\ (/\ pc = "merged"
        /\ NoNegativeDelta(track5_msgs)
        /\ NoNegativeDelta(track6_msgs))
          => NoNegativeDelta(merged_drums)
    /\ (pc = "converted" /\ NoNegativeDelta(in_file.tracks[1]))
          => \A t \in 1..Len(mid.tracks) : NoNegativeDelta(mid.tracks[t])

\* Primary ends after secondary begins, nothing was dropped: the merge had
\* to bring the messages of secondary in front of the last of primary.
C21_Witness ==
    /\ pc = "merged"
    /\ Len(track5_msgs) = 2
    /\ Len(track6_msgs) = 1
    /\ Len(merged_drums) = 3
    /\ Tick(track5_msgs, 2) > Tick(track6_msgs, 1)
    /\ Placed(merged_drums)[3] = Placed(track5_msgs)[2]
    /\ merged_drums[3].time = Tick(track5_msgs, 2) - Tick(track6_msgs, 1)


(***************************************************************************)
(* Claims on the timing and the deletions of the combiner                  *)
(***************************************************************************)
\* The channel-voice messages of a track, each with its absolute tick in
\* the track and with channel ch.
VoicePlaced(track, ch) ==
    LET voiced == SelectSeq(Placed(track), LAMBDA p : hasattr(p[2], "channel"))
    IN [k \in 1..Len(voiced) |-> <<voiced[k][1], [voiced[k][2] EXCEPT !.channel = ch]>>]

\* The same for every track of a file, one track after the other.
RECURSIVE VoicePlacedAll(_, _)
VoicePlacedAll(tracks, ch) ==
    IF tracks = <<>> THEN <<>>
    ELSE VoicePlaced(Head(tracks), ch) \o VoicePlacedAll(Tail(tracks), ch)

\* C22: in the combined file the channel-voice messages of the track CHi
\* are those of the tracks of i.mid, each at the absolute tick it has in
\* its source track, and every channel-voice message of 6.mid is in the
\* drum track at the absolute tick it has in its source track.
C22_CombineKeepsTicks ==
    output_midi # NoFile =>
        /\ \A i \in 1..4 :
              BagOf(VoicePlaced(output_midi.tracks[i + 1], i - 1))
                  = BagOf(VoicePlacedAll(files[i].tracks, i - 1))
        /\ \A k \in 1..Len(VoicePlacedAll(files[6].tracks, 9)) :
              \E j \in 1..Len(VoicePlaced(output_midi.tracks[6], 9)) :
                  VoicePlaced(output_midi.tracks[6], 9)[j]
                      = VoicePlacedAll(files[6].tracks, 9)[k]


\* C23: a source file is removed only once the combined file is on disk:
\* whenever a file of a folder that held all six is gone, the combined file
\* has been saved, and when the operation has failed no file is gone.
C23_DeleteAfterSave ==
    output_midi # NoFile =>
        /\ (\E i \in 1..6 : ~files[i].exists) => saved_midi = output_midi
        /\ pc = "combine_failed" => \A i \in 1..6 : files[i].exists

====
